---- MODULE Spec2Model ----
(***************************************************************************)
(* A model of the multilevel feedback queue scheduler of src/Scheduler.js. *)
(*                                                                         *)
(* The Scheduler class (constructor, run, allEmpty, addNewProcess,         *)
(* handleInterrupt) is translated from the source.  The Queue and Process  *)
(* collaborators and the constants module are required by Scheduler.js     *)
(* but their files are not part of the sources at hand; they are modelled  *)
(* from the specification (sections 3, 4.1 and 6) and marked as such.      *)
(***************************************************************************)
EXTENDS Integers, Sequences, FiniteSets, TLC

(***************************************************************************)
(* Bounds of the model.                                                    *)
(***************************************************************************)
\* number of process objects that may be created
NumProcs == 2
\* the largest wall-clock sample Date.now() returns in the model
MaxClock == 45

\* elapsed times between two consecutive clock samples
Deltas == {0, 10, 30}
\* the values Date.now() may return when the scheduler is constructed
StartClocks == {5}

Procs == 1..NumProcs

(***************************************************************************)
(* constants/index (required at Scheduler.js:2-6).                         *)
(***************************************************************************)
PRIORITY_LEVELS == 3

CPU_QUEUE == "CPU_QUEUE"
BLOCKING_QUEUE == "BLOCKING_QUEUE"

PROCESS_BLOCKED == "PROCESS_BLOCKED"
PROCESS_READY == "PROCESS_READY"
LOWER_PRIORITY == "LOWER_PRIORITY"

SchedulerInterrupt == {PROCESS_BLOCKED, PROCESS_READY, LOWER_PRIORITY}
\* the interrupt strings a caller may pass: the three known ones and one
\* that no case of the switch matches
InterruptKinds == SchedulerInterrupt \cup {"UNKNOWN_INTERRUPT"}

Levels == 0..(PRIORITY_LEVELS - 1)

Min(a, b) == IF a <= b THEN a ELSE b
Max(a, b) == IF a >= b THEN a ELSE b

(***************************************************************************)
(* Process: the capability contract of sections 3 and 6.  A process has a *)
(* remaining CPU burst and a remaining blocking phase that follows it.  A  *)
(* process with stuck = TRUE consumes no time when serviced (section 5:    *)
(* "processes with non-decreasing remaining time").                        *)
(***************************************************************************)
NewProcess(cpu, blk, stuck) == [cpu |-> cpu, blk |-> blk, stuck |-> stuck]

\* the process objects a caller may create: a CPU-bound one, one that
\* blocks after a short CPU burst, and one that never makes progress
Shapes == { NewProcess(25, 0, FALSE),
            NewProcess(5, 20, FALSE),
            NewProcess(5, 0, TRUE) }

\* a process object that has not been created yet
Unborn == NewProcess(0, 0, FALSE)

\* total time the process still requires
Remaining(pr) == pr.cpu + pr.blk

IsFinished(pr) == pr.cpu = 0 /\ pr.blk = 0

\* consume up to n units of CPU time
ExecuteProcess(pr, n) ==
    IF pr.stuck THEN pr ELSE [pr EXCEPT !.cpu = @ - Min(n, @)]

\* post-condition of a CPU service: done / needs-block / still-needs-CPU
CpuOutcome(pr) ==
    IF pr.cpu > 0 THEN "needs-cpu"
    ELSE IF pr.blk > 0 THEN "needs-block"
    ELSE "done"

\* consume up to n units of blocking time
ExecuteBlockingProcess(pr, n) ==
    IF pr.stuck THEN pr ELSE [pr EXCEPT !.blk = @ - Min(n, @)]

BlockingCompleted(pr) == pr.blk = 0

(***************************************************************************)
(* Queue (section 4.1): an ordered sequence of processes with a quantum,   *)
(* a priority level and a role tag.                                        *)
(***************************************************************************)
NewQueue(quantum, priorityLevel, queueType) ==
    [processes |-> <<>>, quantum |-> quantum,
     priorityLevel |-> priorityLevel, queueType |-> queueType]

Enqueue(queue, process) == [queue EXCEPT !.processes = Append(@, process)]

Dequeue(queue) == [queue EXCEPT !.processes = Tail(@)]

IsEmpty(queue) == queue.processes = <<>>

GetQueueType(queue) == queue.queueType

GetPriorityLevel(queue) == queue.priorityLevel

(***************************************************************************)
(* State.                                                                  *)
(***************************************************************************)
VARIABLES
    clock,          \* Scheduler.clock: the last clock sample
    blockingQueue,  \* Scheduler.blockingQueue
    runningQueues,  \* Scheduler.runningQueues, indexed by priority level
    proc,           \* the state of every process object
    created,        \* number of process objects created so far
    pc,             \* position of the caller: "idle" or a place in run()
    workTime,       \* run(): the local workTime of the current iteration
    raised,         \* history: interrupts raised in the current iteration
    cpuCalls,       \* history: levels doCPUWork was invoked on in the iteration
    cpuTimes,       \* history: the arguments of these doCPUWork calls
    blkCalls,       \* history: the arguments of its doBlockingWork calls
    scanNonEmpty,   \* history: non-empty CPU levels when the scan started
    call,           \* history: the last call of the public interface
    hist,           \* history: per process, levels of its last two CPU services
    wts,            \* history: the first two positive workTimes of the run()
    startClock,     \* history: the constructor's clock sample
    iterations,     \* history: iterations of the current run(): 0, 1, 2 = more
    workTotal,      \* history: the sum of the workTimes of all iterations
    lastSample      \* history: the last value Date.now() returned

vars == <<clock, blockingQueue, runningQueues, proc, created, pc, workTime,
          raised, cpuCalls, cpuTimes, blkCalls, scanNonEmpty, call, hist,
          wts, startClock, iterations, workTotal, lastSample>>

\* the scheduler, the processes and the histories that the operations of
\* Scheduler and Queue read and write
World ==
    [blockingQueue |-> blockingQueue, runningQueues |-> runningQueues,
     proc |-> proc, raised |-> raised, cpuCalls |-> cpuCalls,
     cpuTimes |-> cpuTimes, blkCalls |-> blkCalls]

SetWorld(w) ==
    /\ blockingQueue' = w.blockingQueue
    /\ runningQueues' = w.runningQueues
    /\ proc' = w.proc
    /\ raised' = w.raised
    /\ cpuCalls' = w.cpuCalls
    /\ cpuTimes' = w.cpuTimes
    /\ blkCalls' = w.blkCalls

(***************************************************************************)
(* Scheduler.                                                              *)
(***************************************************************************)
\* constructor: the blocking queue
NewBlockingQueue == NewQueue(50, 0, BLOCKING_QUEUE)

\* the CPU queue of level i with the quantum of level 0
NewRunningQueueFlat(i) == NewQueue(10, i, CPU_QUEUE)

\* constructor giving the CPU queues the levels 1, 2, ...
NewRunningQueueShifted(i) == NewQueue(10 + i * 20, i + 1, CPU_QUEUE)

\* constructor: the CPU queue of level i
NewRunningQueue(i) == NewQueue(10 + i * 20, i, CPU_QUEUE)

\* allEmpty() looking at the CPU queues only
AllEmptyCpuOnly(w) ==
    \A i \in DOMAIN w.runningQueues : IsEmpty(w.runningQueues[i])

\* allEmpty() looking at the blocking queue only
AllEmptyBlockingOnly(w) == IsEmpty(w.blockingQueue)

\* allEmpty()
AllEmpty(w) ==
    /\ \A i \in DOMAIN w.runningQueues : IsEmpty(w.runningQueues[i])
    /\ IsEmpty(w.blockingQueue)

\* addNewProcess enqueuing into the queue of level 1
AddNewProcessLevelOne(w, process) ==
    [w EXCEPT !.runningQueues[1] = Enqueue(@, process)]

\* addNewProcess(process)
AddNewProcess(w, process) ==
    [w EXCEPT !.runningQueues[0] = Enqueue(@, process)]

\* handleInterrupt putting a ready process back at the level of the source queue
HandleInterruptReadyKeepsLevel(w, queue, process, interrupt) ==
    CASE interrupt = PROCESS_BLOCKED ->
            [w EXCEPT !.blockingQueue = Enqueue(@, process)]
      [] interrupt = PROCESS_READY ->
            [w EXCEPT !.runningQueues[GetPriorityLevel(queue)] =
                                Enqueue(@, process)]
      [] interrupt = LOWER_PRIORITY ->
            IF GetQueueType(queue) = CPU_QUEUE
            THEN LET priorityLevel ==
                       Min(PRIORITY_LEVELS - 1, GetPriorityLevel(queue) + 1)
                 IN [w EXCEPT !.runningQueues[priorityLevel] =
                                     Enqueue(@, process)]
            ELSE [w EXCEPT !.blockingQueue = Enqueue(@, process)]
      [] OTHER -> w

\* handleInterrupt moving a preempted process one level up
HandleInterruptPromotes(w, queue, process, interrupt) ==
    CASE interrupt = PROCESS_BLOCKED ->
            [w EXCEPT !.blockingQueue = Enqueue(@, process)]
      [] interrupt = PROCESS_READY ->
            AddNewProcess(w, process)
      [] interrupt = LOWER_PRIORITY ->
            IF GetQueueType(queue) = CPU_QUEUE
            THEN LET priorityLevel ==
                       Max(0, GetPriorityLevel(queue) - 1)
                 IN [w EXCEPT !.runningQueues[priorityLevel] =
                                     Enqueue(@, process)]
            ELSE [w EXCEPT !.blockingQueue = Enqueue(@, process)]
      [] OTHER -> w

\* handleInterrupt without the clamp at the lowest level
HandleInterruptNoClamp(w, queue, process, interrupt) ==
    CASE interrupt = PROCESS_BLOCKED ->
            [w EXCEPT !.blockingQueue = Enqueue(@, process)]
      [] interrupt = PROCESS_READY ->
            AddNewProcess(w, process)
      [] interrupt = LOWER_PRIORITY ->
            IF GetQueueType(queue) = CPU_QUEUE
            THEN LET priorityLevel ==
                       GetPriorityLevel(queue) + 1
                 IN [w EXCEPT !.runningQueues[priorityLevel] =
                                     Enqueue(@, process)]
            ELSE [w EXCEPT !.blockingQueue = Enqueue(@, process)]
      [] OTHER -> w

\* handleInterrupt whose default case falls into the blocking case
HandleInterruptFallThrough(w, queue, process, interrupt) ==
    CASE interrupt = PROCESS_BLOCKED ->
            [w EXCEPT !.blockingQueue = Enqueue(@, process)]
      [] interrupt = PROCESS_READY ->
            AddNewProcess(w, process)
      [] interrupt = LOWER_PRIORITY ->
            IF GetQueueType(queue) = CPU_QUEUE
            THEN LET priorityLevel ==
                       Min(PRIORITY_LEVELS - 1, GetPriorityLevel(queue) + 1)
                 IN [w EXCEPT !.runningQueues[priorityLevel] =
                                     Enqueue(@, process)]
            ELSE [w EXCEPT !.blockingQueue = Enqueue(@, process)]
      [] OTHER -> [w EXCEPT !.blockingQueue = Enqueue(@, process)]

\* handleInterrupt putting a ready process into the queue of level 1
HandleInterruptReadyLevelOne(w, queue, process, interrupt) ==
    CASE interrupt = PROCESS_BLOCKED ->
            [w EXCEPT !.blockingQueue = Enqueue(@, process)]
      [] interrupt = PROCESS_READY ->
            [w EXCEPT !.runningQueues[1] = Enqueue(@, process)]
      [] interrupt = LOWER_PRIORITY ->
            IF GetQueueType(queue) = CPU_QUEUE
            THEN LET priorityLevel ==
                       Min(PRIORITY_LEVELS - 1, GetPriorityLevel(queue) + 1)
                 IN [w EXCEPT !.runningQueues[priorityLevel] =
                                     Enqueue(@, process)]
            ELSE [w EXCEPT !.blockingQueue = Enqueue(@, process)]
      [] OTHER -> w

\* handleInterrupt with the PROCESS_BLOCKED case doing what the PROCESS_READY
\* case does
HandleInterruptBlockedAsReady(w, queue, process, interrupt) ==
    CASE interrupt = PROCESS_BLOCKED ->
            AddNewProcess(w, process)
      [] interrupt = PROCESS_READY ->
            AddNewProcess(w, process)
      [] interrupt = LOWER_PRIORITY ->
            IF GetQueueType(queue) = CPU_QUEUE
            THEN LET priorityLevel ==
                       Min(PRIORITY_LEVELS - 1, GetPriorityLevel(queue) + 1)
                 IN [w EXCEPT !.runningQueues[priorityLevel] =
                                     Enqueue(@, process)]
            ELSE [w EXCEPT !.blockingQueue = Enqueue(@, process)]
      [] OTHER -> w

\* handleInterrupt whose PROCESS_BLOCKED case looks at the type of the source
\* queue and blocks only what comes from a CPU queue
HandleInterruptBlockedFromCpuOnly(w, queue, process, interrupt) ==
    CASE interrupt = PROCESS_BLOCKED ->
            IF GetQueueType(queue) = CPU_QUEUE
            THEN [w EXCEPT !.blockingQueue = Enqueue(@, process)]
            ELSE AddNewProcess(w, process)
      [] interrupt = PROCESS_READY ->
            AddNewProcess(w, process)
      [] interrupt = LOWER_PRIORITY ->
            IF GetQueueType(queue) = CPU_QUEUE
            THEN LET priorityLevel ==
                       Min(PRIORITY_LEVELS - 1, GetPriorityLevel(queue) + 1)
                 IN [w EXCEPT !.runningQueues[priorityLevel] =
                                     Enqueue(@, process)]
            ELSE [w EXCEPT !.blockingQueue = Enqueue(@, process)]
      [] OTHER -> w

\* handleInterrupt whose LOWER_PRIORITY case ignores the type of the source
\* queue
HandleInterruptLowerIgnoresType(w, queue, process, interrupt) ==
    CASE interrupt = PROCESS_BLOCKED ->
            [w EXCEPT !.blockingQueue = Enqueue(@, process)]
      [] interrupt = PROCESS_READY ->
            AddNewProcess(w, process)
      [] interrupt = LOWER_PRIORITY ->
            LET priorityLevel ==
                  Min(PRIORITY_LEVELS - 1, GetPriorityLevel(queue) + 1)
            IN [w EXCEPT !.runningQueues[priorityLevel] = Enqueue(@, process)]
      [] OTHER -> w

\* handleInterrupt without the break of line 77: the PROCESS_BLOCKED case
\* runs on into the PROCESS_READY case
HandleInterruptMissingBreak(w, queue, process, interrupt) ==
    CASE interrupt = PROCESS_BLOCKED ->
            AddNewProcess([w EXCEPT !.blockingQueue = Enqueue(@, process)],
                          process)
      [] interrupt = PROCESS_READY ->
            AddNewProcess(w, process)
      [] interrupt = LOWER_PRIORITY ->
            IF GetQueueType(queue) = CPU_QUEUE
            THEN LET priorityLevel ==
                       Min(PRIORITY_LEVELS - 1, GetPriorityLevel(queue) + 1)
                 IN [w EXCEPT !.runningQueues[priorityLevel] =
                                     Enqueue(@, process)]
            ELSE [w EXCEPT !.blockingQueue = Enqueue(@, process)]
      [] OTHER -> w

\* handleInterrupt whose PROCESS_READY case puts the process at the head of
\* the queue of level 0
HandleInterruptReadyAtHead(w, queue, process, interrupt) ==
    CASE interrupt = PROCESS_BLOCKED ->
            [w EXCEPT !.blockingQueue = Enqueue(@, process)]
      [] interrupt = PROCESS_READY ->
            [w EXCEPT !.runningQueues[0].processes = <<process>> \o @]
      [] interrupt = LOWER_PRIORITY ->
            IF GetQueueType(queue) = CPU_QUEUE
            THEN LET priorityLevel ==
                       Min(PRIORITY_LEVELS - 1, GetPriorityLevel(queue) + 1)
                 IN [w EXCEPT !.runningQueues[priorityLevel] =
                                     Enqueue(@, process)]
            ELSE [w EXCEPT !.blockingQueue = Enqueue(@, process)]
      [] OTHER -> w

\* handleInterrupt(queue, process, interrupt)
HandleInterrupt(w, queue, process, interrupt) ==
    CASE interrupt = PROCESS_BLOCKED ->
            [w EXCEPT !.blockingQueue = Enqueue(@, process)]
      [] interrupt = PROCESS_READY ->
            AddNewProcess(w, process)
      [] interrupt = LOWER_PRIORITY ->
            IF GetQueueType(queue) = CPU_QUEUE
            THEN LET priorityLevel ==
                       Min(PRIORITY_LEVELS - 1, GetPriorityLevel(queue) + 1)
                 IN [w EXCEPT !.runningQueues[priorityLevel] =
                                     Enqueue(@, process)]
            ELSE [w EXCEPT !.blockingQueue = Enqueue(@, process)]
      [] OTHER -> w

(***************************************************************************)
(* Queue.doCPUWork and Queue.doBlockingWork (section 4.1).  An interrupt   *)
(* is raised by calling the scheduler's handleInterrupt with this queue.   *)
(***************************************************************************)
EmitInterrupt(w, queue, process, interrupt) ==
    HandleInterrupt(
        [w EXCEPT !.raised = Append(@, [queueType |-> queue.queueType,
                                        priorityLevel |-> queue.priorityLevel,
                                        process |-> process,
                                        interrupt |-> interrupt])],
        queue, process, interrupt)

\* doCPUWork(workTime) of the CPU queue of level i; a queue without a head
\* has nothing to service
DoCPUWork(w, i, time) ==
    IF time = 0 \/ IsEmpty(w.runningQueues[i]) THEN w
    ELSE
      LET queue == w.runningQueues[i]
          process == Head(queue.processes)
          after == ExecuteProcess(w.proc[process], Min(queue.quantum, time))
          w1 == [w EXCEPT !.runningQueues[i] = Dequeue(@),
                          !.proc[process] = after]
      IN CASE CpuOutcome(after) = "done" -> w1
           [] CpuOutcome(after) = "needs-block" ->
                EmitInterrupt(w1, queue, process, PROCESS_BLOCKED)
           [] OTHER ->
                EmitInterrupt(w1, queue, process, LOWER_PRIORITY)

\* doBlockingWork(workTime) of the blocking queue; a queue without a head
\* has nothing to service
DoBlockingWork(w, time) ==
    IF time = 0 \/ IsEmpty(w.blockingQueue) THEN w
    ELSE
      LET queue == w.blockingQueue
          process == Head(queue.processes)
          after == ExecuteBlockingProcess(w.proc[process], time)
          w1 == [w EXCEPT !.blockingQueue = Dequeue(@),
                          !.proc[process] = after]
      IN IF BlockingCompleted(after)
         THEN EmitInterrupt(w1, queue, process, PROCESS_READY)
         ELSE EmitInterrupt(w1, queue, process, LOWER_PRIORITY)

(***************************************************************************)
(* run(): the loop body, lines 34-53.                                      *)
(***************************************************************************)
RECURSIVE ScanWithoutBreak(_, _, _)
\* the for loop without the break of line 46
ScanWithoutBreak(w, i, time) ==
    IF i >= PRIORITY_LEVELS THEN w
    ELSE IF ~IsEmpty(w.runningQueues[i])
         THEN ScanWithoutBreak(
                  DoCPUWork([w EXCEPT !.cpuCalls = Append(@, i),
                                     !.cpuTimes = Append(@, time)], i, time),
                  i + 1, time)
         ELSE ScanWithoutBreak(w, i + 1, time)

RECURSIVE ScanFrom(_, _, _)
\* the for loop of lines 42-48, entered at index i
ScanFrom(w, i, time) ==
    IF i >= PRIORITY_LEVELS THEN w
    ELSE IF ~IsEmpty(w.runningQueues[i])
         THEN DoCPUWork([w EXCEPT !.cpuCalls = Append(@, i),
                                     !.cpuTimes = Append(@, time)], i, time)
         ELSE ScanFrom(w, i + 1, time)

\* lines 38-40 with workTime computed after line 36 has updated the clock:
\* the blocking queue is handed time - this.clock = 0
BlockingStepStaleTime(w, time) ==
    IF ~IsEmpty(w.blockingQueue)
    THEN DoBlockingWork([w EXCEPT !.blkCalls = Append(@, 0)], 0)
    ELSE w

\* lines 38-40 handing the blocking queue its quantum instead of workTime
BlockingStepQuantumTime(w, time) ==
    IF ~IsEmpty(w.blockingQueue)
    THEN DoBlockingWork([w EXCEPT !.blkCalls =
                                      Append(@, w.blockingQueue.quantum)],
                        w.blockingQueue.quantum)
    ELSE w

\* lines 38-40 without the isEmpty() test of line 38
BlockingStepUnguarded(w, time) ==
    DoBlockingWork([w EXCEPT !.blkCalls = Append(@, time)], time)

\* lines 38-40
BlockingStep(w, time) ==
    IF ~IsEmpty(w.blockingQueue)
    THEN DoBlockingWork([w EXCEPT !.blkCalls = Append(@, time)], time)
    ELSE w

(***************************************************************************)
(* Histories.                                                              *)
(***************************************************************************)
NoCall ==
    [op |-> "none", queueType |-> "none", priorityLevel |-> 0, process |-> 0,
     interrupt |-> "none", result |-> FALSE,
     pre |-> [blockingQueue |-> NewBlockingQueue,
              runningQueues |-> [i \in Levels |-> NewRunningQueue(i)],
              proc |-> [p \in Procs |-> Unborn],
              clock |-> 0]]

\* the state a call of the public interface is made in
Pre == [blockingQueue |-> blockingQueue, runningQueues |-> runningQueues,
        proc |-> proc, clock |-> clock]

NoHist == [prev |-> -1, cur |-> -1, viaReady |-> FALSE, readied |-> FALSE]

\* processes a PROCESS_READY interrupt was raised for, in the log r
Readied(r) == {r[k].process : k \in {j \in DOMAIN r : r[j].interrupt = PROCESS_READY}}

(***************************************************************************)
(* Initial state: a constructed scheduler and no process.                  *)
(***************************************************************************)
Init ==
    /\ clock \in StartClocks
    /\ startClock = clock
    /\ blockingQueue = NewBlockingQueue
    /\ runningQueues = [i \in Levels |-> NewRunningQueue(i)]
    /\ proc = [p \in Procs |-> Unborn]
    /\ created = 0
    /\ pc = "idle"
    /\ workTime = 0
    /\ raised = <<>>
    /\ cpuCalls = <<>>
    /\ cpuTimes = <<>>
    /\ blkCalls = <<>>
    /\ scanNonEmpty = {}
    /\ call = NoCall
    /\ hist = [p \in Procs |-> NoHist]
    /\ wts = <<>>
    /\ iterations = 0
    /\ workTotal = 0
    /\ lastSample = clock

(***************************************************************************)
(* Calls of the public interface, made while run() is not executing.       *)
(***************************************************************************)
\* a caller creates a process and submits it with addNewProcess
CallAddNewProcess(shape) ==
    /\ pc = "idle"
    /\ created < NumProcs
    /\ LET process == created + 1
           w == AddNewProcess([World EXCEPT !.proc[process] = shape], process)
       IN /\ SetWorld(w)
          /\ created' = process
          /\ call' = [NoCall EXCEPT !.op = "addNewProcess",
                                    !.process = process, !.pre = Pre]
    /\ UNCHANGED <<clock, pc, workTime, scanNonEmpty, hist, wts, workTotal,
                   lastSample, startClock,
                   iterations>>

\* a caller (a queue, or a test) calls handleInterrupt with one of the
\* scheduler's queues, a process that is in no queue, and an interrupt string
CallHandleInterrupt(queue, shape, interrupt) ==
    /\ pc = "idle"
    /\ created < NumProcs
    /\ LET process == created + 1
           w == HandleInterrupt([World EXCEPT !.proc[process] = shape],
                                queue, process, interrupt)
       IN /\ SetWorld(w)
          /\ created' = process
          /\ call' = [NoCall EXCEPT !.op = "handleInterrupt",
                                    !.queueType = queue.queueType,
                                    !.priorityLevel = queue.priorityLevel,
                                    !.process = process,
                                    !.interrupt = interrupt, !.pre = Pre]
          /\ hist' = [hist EXCEPT ![process].readied =
                                       (interrupt = PROCESS_READY)]
    /\ UNCHANGED <<clock, pc, workTime, scanNonEmpty, wts, workTotal,
                   lastSample, startClock,
                   iterations>>

\* a caller calls allEmpty()
CallAllEmpty ==
    /\ pc = "idle"
    /\ call' = [NoCall EXCEPT !.op = "allEmpty", !.result = AllEmpty(World),
                              !.pre = Pre]
    /\ UNCHANGED <<clock, blockingQueue, runningQueues, proc, created, pc,
                   workTime, raised, cpuCalls, cpuTimes, blkCalls,
                   scanNonEmpty, hist,
                   wts, workTotal,
                   lastSample, startClock, iterations>>

\* a caller calls run(), no later than MaxClock
CallRun ==
    /\ pc = "idle"
    /\ clock <= MaxClock
    /\ pc' = "sample"
    /\ call' = [NoCall EXCEPT !.op = "run", !.pre = Pre]
    /\ wts' = <<>>
    /\ iterations' = 0
    /\ raised' = <<>>
    /\ cpuCalls' = <<>>
    /\ cpuTimes' = <<>>
    /\ blkCalls' = <<>>
    /\ scanNonEmpty' = {}
    /\ UNCHANGED <<clock, blockingQueue, runningQueues, proc, created,
                   workTime, hist, workTotal,
                   lastSample, startClock>>

(***************************************************************************)
(* The iterations of run().                                                *)
(***************************************************************************)
\* lines 34-36 with line 36 before line 35: the clock is overwritten before
\* workTime is computed from it
RunSampleClockFirst(delta, horizon) ==
    /\ pc = "sample"
    /\ LET time == lastSample + delta
       IN /\ time <= horizon
          /\ lastSample' = time
          /\ workTime' = time - time
          /\ clock' = time
    /\ pc' = "blocking"
    /\ raised' = <<>>
    /\ cpuCalls' = <<>>
    /\ cpuTimes' = <<>>
    /\ blkCalls' = <<>>
    /\ scanNonEmpty' = {}
    /\ wts' = IF delta > 0 /\ Len(wts) < 2 THEN Append(wts, delta) ELSE wts
    /\ iterations' = Min(iterations + 1, 2)
    /\ workTotal' = workTotal + workTime'
    /\ UNCHANGED <<blockingQueue, runningQueues, proc, created, call, hist,
                   startClock>>

\* lines 34-36: sample the clock, compute workTime; Date.now() returns the
\* previous sample + delta, which is at most horizon
RunSampleUpTo(delta, horizon) ==
    /\ pc = "sample"
    /\ LET time == lastSample + delta
       IN /\ time <= horizon
          /\ lastSample' = time
          /\ workTime' = time - clock
          /\ clock' = time
    /\ pc' = "blocking"
    /\ raised' = <<>>
    /\ cpuCalls' = <<>>
    /\ cpuTimes' = <<>>
    /\ blkCalls' = <<>>
    /\ scanNonEmpty' = {}
    /\ wts' = IF delta > 0 /\ Len(wts) < 2 THEN Append(wts, delta) ELSE wts
    /\ iterations' = Min(iterations + 1, 2)
    /\ workTotal' = workTotal + workTime'
    /\ UNCHANGED <<blockingQueue, runningQueues, proc, created, call, hist,
                   startClock>>

RunSample(delta) == RunSampleUpTo(delta, MaxClock)

\* a horizon that leaves every run() started by MaxClock the time to service
\* all processes, whatever the workTimes
LiveHorizon == MaxClock + NumProcs * 70

RunSampleLive(delta) == RunSampleUpTo(delta, LiveHorizon)

\* lines 38-40: service the blocking queue
RunBlocking ==
    /\ pc = "blocking"
    /\ LET w == BlockingStep(World, workTime)
       IN /\ SetWorld(w)
          /\ hist' = [p \in Procs |->
                        IF p \in Readied(w.raised)
                        THEN [hist[p] EXCEPT !.readied = TRUE]
                        ELSE hist[p]]
    /\ pc' = "scan"
    /\ UNCHANGED <<clock, created, workTime, scanNonEmpty, call, wts,
                   workTotal,
                   lastSample, startClock, iterations>>

\* lines 42-48: scan the CPU queues
RunScan ==
    /\ pc = "scan"
    /\ LET nonEmpty == {i \in Levels : ~IsEmpty(runningQueues[i])}
           w == ScanFrom(World, 0, workTime)
       IN /\ SetWorld(w)
          /\ scanNonEmpty' = nonEmpty
          /\ hist' = IF nonEmpty # {} /\ workTime > 0
                     THEN LET level == CHOOSE i \in nonEmpty :
                                          \A j \in nonEmpty : i <= j
                              process == Head(runningQueues[level].processes)
                          IN [hist EXCEPT ![process] =
                                [prev |-> hist[process].cur, cur |-> level,
                                 viaReady |-> hist[process].readied,
                                 readied |-> FALSE]]
                     ELSE hist
    /\ pc' = "check"
    /\ UNCHANGED <<clock, created, workTime, call, wts, workTotal,
                   lastSample, startClock,
                   iterations>>

\* lines 50-53: leave the loop when every queue is empty
RunCheck ==
    /\ pc = "check"
    /\ pc' = IF AllEmpty(World) THEN "idle" ELSE "sample"
    /\ UNCHANGED <<clock, blockingQueue, runningQueues, proc, created,
                   workTime, raised, cpuCalls, cpuTimes, blkCalls,
                   scanNonEmpty, call,
                   hist, wts, workTotal,
                   lastSample, startClock, iterations>>

Next ==
    \/ \E shape \in Shapes : CallAddNewProcess(shape)
    \/ \E queue \in {blockingQueue} \cup {runningQueues[i] : i \in Levels},
          shape \in Shapes, interrupt \in InterruptKinds :
            CallHandleInterrupt(queue, shape, interrupt)
    \/ CallAllEmpty
    \/ CallRun
    \/ \E delta \in Deltas : RunSample(delta)
    \/ RunBlocking
    \/ RunScan
    \/ RunCheck

Spec == Init /\ [][Next]_vars

\* processes are submitted with addNewProcess and run() is called
NextLive ==
    \/ \E shape \in Shapes : CallAddNewProcess(shape)
    \/ CallRun
    \/ \E delta \in Deltas : RunSampleLive(delta)
    \/ RunBlocking
    \/ RunScan
    \/ RunCheck

\* run() keeps executing its loop, and the wall clock advances: again and
\* again two consecutive samples differ
SpecLive ==
    /\ Init
    /\ [][NextLive]_vars
    /\ WF_vars(RunBlocking)
    /\ WF_vars(RunScan)
    /\ WF_vars(RunCheck)
    /\ SF_vars(\E delta \in Deltas \ {0} : RunSampleLive(delta))

(***************************************************************************)
(* Properties.                                                             *)
(***************************************************************************)
Last(seq) == seq[Len(seq)]

InQueue(process, queue) ==
    \E k \in DOMAIN queue.processes : queue.processes[k] = process

\* the lowest index of a non-empty set of levels
Lowest(S) == CHOOSE i \in S : \A j \in S : i <= j

\* every queue but the CPU queue of level t is as it was when the last call
\* of the public interface was made
OthersUnchanged(t) ==
    /\ blockingQueue = call.pre.blockingQueue
    /\ \A i \in Levels \ {t} : runningQueues[i] = call.pre.runningQueues[i]

C3_AddAtLevelZero ==
    call.op = "addNewProcess" =>
        /\ runningQueues[0] = Enqueue(call.pre.runningQueues[0], call.process)
        /\ OthersUnchanged(0)
        /\ clock = call.pre.clock

\* addNewProcess called while level 0 already holds a process: the new one
\* is behind it
C3_Witness ==
    /\ call.op = "addNewProcess"
    /\ ~IsEmpty(call.pre.runningQueues[0])
    /\ Len(runningQueues[0].processes) = 2
    /\ Last(runningQueues[0].processes) = call.process

\* the queues a process is in: CPU levels, and -1 for the blocking queue
QueuesOf(process) ==
    {i \in Levels : InQueue(process, runningQueues[i])}
      \cup (IF InQueue(process, blockingQueue) THEN {-1} ELSE {})

\* the level a LOWER_PRIORITY interrupt from the CPU queue of level L leads to
Demoted(L) == IF L = PRIORITY_LEVELS - 1 THEN L ELSE L + 1

\* C4: handleInterrupt(q, p, PROCESS_READY) appends p to the CPU queue of
\* level 0 for every source queue q and changes no other queue; in run(), a
\* process whose blocking phase completes is at the tail of level 0, and in
\* no other queue, when the blocking step of the iteration is over.
C4_ReadyEntersLevelZero ==
    /\ (call.op = "handleInterrupt" /\ call.interrupt = PROCESS_READY) =>
          /\ runningQueues[0] =
                 Enqueue(call.pre.runningQueues[0], call.process)
          /\ OthersUnchanged(0)
    /\ pc = "scan" =>
          \A process \in Readied(raised) :
              /\ ~IsEmpty(runningQueues[0])
              /\ Last(runningQueues[0].processes) = process
              /\ QueuesOf(process) = {0}

\* a process last serviced at level 1 or lower has completed its blocking
\* phase and is back at level 0
C4_Witness ==
    /\ pc = "scan"
    /\ \E process \in Readied(raised) :
          /\ hist[process].cur >= 1
          /\ QueuesOf(process) = {0}

\* C5: between two consecutive CPU services of a process with no
\* PROCESS_READY interrupt in between, its level goes up by one or stays at
\* PRIORITY_LEVELS - 1; a process is serviced at, or waits at, a level of
\* lower index than its last service only after a PROCESS_READY interrupt.
C5_DemotionOnly ==
    \A process \in Procs :
        /\ (hist[process].prev # -1 /\ ~hist[process].viaReady) =>
              \/ hist[process].cur = hist[process].prev + 1
              \/ /\ hist[process].cur = hist[process].prev
                 /\ hist[process].prev = PRIORITY_LEVELS - 1
        /\ (hist[process].prev # -1 /\ hist[process].cur < hist[process].prev)
              => hist[process].viaReady
        /\ \A i \in Levels :
              (InQueue(process, runningQueues[i]) /\ i < hist[process].cur)
                  => hist[process].readied

\* one process was serviced twice in a row at the lowest level, another one
\* came back from level 1 to level 0 through PROCESS_READY
C5_Witness ==
    /\ \E process \in Procs :
          /\ hist[process].prev = PRIORITY_LEVELS - 1
          /\ hist[process].cur = PRIORITY_LEVELS - 1
          /\ ~hist[process].viaReady
    /\ \E process \in Procs :
          /\ hist[process].prev = 1
          /\ hist[process].cur = 0
          /\ hist[process].viaReady

\* C6: handleInterrupt(q, p, LOWER_PRIORITY) with q the CPU queue of level L
\* appends p to the CPU queue of level L + 1, or of level L when L is the
\* lowest level, and changes no other queue; the same holds of the
\* LOWER_PRIORITY interrupts a CPU queue raises during the scan of run().
C6_LowerPriorityTarget ==
    /\ (/\ call.op = "handleInterrupt"
        /\ call.interrupt = LOWER_PRIORITY
        /\ call.queueType = CPU_QUEUE) =>
          /\ Demoted(call.priorityLevel) \in Levels
          /\ runningQueues[Demoted(call.priorityLevel)] =
                 Enqueue(call.pre.runningQueues[Demoted(call.priorityLevel)],
                         call.process)
          /\ OthersUnchanged(Demoted(call.priorityLevel))
    /\ pc = "check" =>
          \A k \in DOMAIN raised :
              (raised[k].interrupt = LOWER_PRIORITY
                 /\ raised[k].queueType = CPU_QUEUE) =>
                  /\ Demoted(raised[k].priorityLevel) \in Levels
                  /\ QueuesOf(raised[k].process) =
                         {Demoted(raised[k].priorityLevel)}
                  /\ Last(runningQueues[Demoted(raised[k].priorityLevel)]
                              .processes) = raised[k].process

\* LOWER_PRIORITY from the lowest queue while a process waits there: the
\* process is behind it in the same queue
C6_Witness ==
    /\ call.op = "handleInterrupt"
    /\ call.interrupt = LOWER_PRIORITY
    /\ call.queueType = CPU_QUEUE
    /\ call.priorityLevel = PRIORITY_LEVELS - 1
    /\ Len(runningQueues[PRIORITY_LEVELS - 1].processes) = 2
    /\ Last(runningQueues[PRIORITY_LEVELS - 1].processes) = call.process

\* C7: allEmpty() returns true exactly when the blocking queue and each of
\* the PRIORITY_LEVELS CPU queues hold no process, and the call changes no
\* queue and not the clock.
C7_AllEmptyExact ==
    call.op = "allEmpty" =>
        /\ call.result = (/\ blockingQueue.processes = <<>>
                          /\ DOMAIN runningQueues = Levels
                          /\ \A i \in Levels :
                                 runningQueues[i].processes = <<>>)
        /\ blockingQueue = call.pre.blockingQueue
        /\ runningQueues = call.pre.runningQueues
        /\ clock = call.pre.clock

\* allEmpty() called while only the blocking queue holds a process
C7_Witness ==
    /\ call.op = "allEmpty"
    /\ ~call.result
    /\ ~IsEmpty(blockingQueue)
    /\ \A i \in Levels : IsEmpty(runningQueues[i])

\* C10: handleInterrupt with an interrupt outside PROCESS_BLOCKED,
\* PROCESS_READY and LOWER_PRIORITY leaves the blocking queue, every CPU
\* queue and the clock unchanged, for every source queue and process.
C10_UnknownInterruptNoOp ==
    (call.op = "handleInterrupt" /\ call.interrupt \notin SchedulerInterrupt)
        => /\ blockingQueue = call.pre.blockingQueue
           /\ runningQueues = call.pre.runningQueues
           /\ clock = call.pre.clock
           /\ QueuesOf(call.process) = {}

\* an unknown interrupt passed with a CPU queue as source while a process
\* waits in a queue
C10_Witness ==
    /\ call.op = "handleInterrupt"
    /\ call.interrupt \notin SchedulerInterrupt
    /\ call.queueType = CPU_QUEUE
    /\ ~IsEmpty(runningQueues[0])

\* run() was called on a scheduler whose only process was the given one,
\* waiting at level 0
Scenario(process, shape) ==
    /\ call.op = "run"
    /\ call.pre.runningQueues[0].processes = <<process>>
    /\ \A i \in Levels \ {0} : IsEmpty(call.pre.runningQueues[i])
    /\ IsEmpty(call.pre.blockingQueue)
    /\ call.pre.proc[process] = shape

\* the interrupt a queue raised
Raised(queue, process, interrupt) ==
    [queueType |-> queue.queueType, priorityLevel |-> queue.priorityLevel,
     process |-> process, interrupt |-> interrupt]

\* the current iteration is the k-th one with a positive workTime
ProductiveTick(k) ==
    /\ Len(wts) = k
    /\ workTime = wts[k]
    /\ pc \in {"blocking", "scan", "check"}

\* C8: a single process P with CPU burst 25 and no blocking.  After the
\* iteration with workTime 10, P has 15 left, LOWER_PRIORITY was raised by
\* level 0 and P is alone at level 1.  After a second productive iteration
\* with workTime 30, P was serviced at level 1, is finished and in no queue.
\* run() does not return after fewer than two productive iterations, and
\* with workTimes 10 and 30 it returns after exactly these two.
C8_ScenarioCpuBound ==
    \A process \in Procs :
      Scenario(process, NewProcess(25, 0, FALSE)) =>
        /\ (ProductiveTick(1) /\ wts = <<10>> /\ pc = "check") =>
              /\ proc[process].cpu = 15
              /\ cpuCalls = <<0>>
              /\ raised = <<Raised(runningQueues[0], process, LOWER_PRIORITY)>>
              /\ runningQueues[1].processes = <<process>>
              /\ QueuesOf(process) = {1}
        /\ (ProductiveTick(2) /\ wts = <<10, 30>> /\ pc = "check") =>
              /\ cpuCalls = <<1>>
              /\ proc[process].cpu = 0
              /\ raised = <<>>
              /\ QueuesOf(process) = {}
              /\ AllEmpty(World)
        /\ pc = "idle" => Len(wts) >= 2
        /\ (pc = "idle" /\ wts[1] = 10 /\ wts[2] = 30) =>
              /\ Len(wts) = 2
              /\ clock = call.pre.clock + 40
              /\ AllEmpty(World)

\* run() has returned in the scenario after workTimes 10 and 30
C8_Witness ==
    \E process \in Procs :
      /\ Scenario(process, NewProcess(25, 0, FALSE))
      /\ pc = "idle"
      /\ wts = <<10, 30>>
      /\ proc[process].cpu = 0

\* C9 as stated: a single process Q with CPU burst 5 and blocking 20; at the
\* end of the second productive iteration, in which the blocking phase
\* completed, Q is in the queue of level 0 and in no other queue.
C9_AtLevelZeroAfterTickTwo ==
    \A process \in Procs :
      (/\ Scenario(process, NewProcess(5, 20, FALSE))
       /\ ProductiveTick(2)
       /\ pc = "check"
       /\ process \in Readied(raised)) => QueuesOf(process) = {0}

\* C9 amended: after the first productive iteration Q has no CPU burst left,
\* PROCESS_BLOCKED was raised by level 0 and Q is in the blocking queue only.
\* In a second productive iteration with workTime 30, after the blocking
\* step PROCESS_READY was raised and Q is in the queue of level 0 only; the
\* scan of the same iteration services Q at level 0, so at the end of the
\* iteration Q is in no queue.  Q is never in a queue of level 1 or 2.
C9_ScenarioBlocking ==
    \A process \in Procs :
      Scenario(process, NewProcess(5, 20, FALSE)) =>
        /\ (ProductiveTick(1) /\ pc = "check") =>
              /\ proc[process] = NewProcess(0, 20, FALSE)
              /\ raised = <<Raised(runningQueues[0], process, PROCESS_BLOCKED)>>
              /\ QueuesOf(process) = {-1}
        /\ (ProductiveTick(2) /\ workTime = 30 /\ pc = "scan") =>
              /\ proc[process] = NewProcess(0, 0, FALSE)
              /\ raised = <<Raised(blockingQueue, process, PROCESS_READY)>>
              /\ runningQueues[0].processes = <<process>>
              /\ QueuesOf(process) = {0}
        /\ (ProductiveTick(2) /\ workTime = 30 /\ pc = "check") =>
              /\ cpuCalls = <<0>>
              /\ QueuesOf(process) = {}
        /\ QueuesOf(process) \cap {1, 2} = {}

\* the blocking step of the second productive iteration has put Q back at
\* level 0
C9_Witness ==
    \E process \in Procs :
      /\ Scenario(process, NewProcess(5, 20, FALSE))
      /\ ProductiveTick(2)
      /\ pc = "scan"
      /\ process \in Readied(raised)
      /\ QueuesOf(process) = {0}

\* a process that makes no progress when serviced is in a queue
StuckQueued ==
    \E process \in Procs : proc[process].stuck /\ QueuesOf(process) # {}

\* such a process was in a queue when run() was called
StuckAtCall ==
    \E process \in Procs :
        /\ call.pre.proc[process].stuck
        /\ \/ InQueue(process, call.pre.blockingQueue)
           \/ \E i \in Levels : InQueue(process, call.pre.runningQueues[i])

C11_BlockedEntersBlockingQueue ==
    /\ (call.op = "handleInterrupt" /\ call.interrupt = PROCESS_BLOCKED) =>
          /\ blockingQueue = Enqueue(call.pre.blockingQueue, call.process)
          /\ runningQueues = call.pre.runningQueues
    /\ pc = "check" =>
          \A k \in DOMAIN raised :
              raised[k].interrupt = PROCESS_BLOCKED =>
                  /\ QueuesOf(raised[k].process) = {-1}
                  /\ Last(blockingQueue.processes) = raised[k].process

\* PROCESS_BLOCKED passed with the blocking queue itself as source while a
\* process waits there: the new one is behind it
C11_Witness ==
    /\ call.op = "handleInterrupt"
    /\ call.interrupt = PROCESS_BLOCKED
    /\ call.queueType = BLOCKING_QUEUE
    /\ ~IsEmpty(call.pre.blockingQueue)
    /\ Len(blockingQueue.processes) = 2
    /\ Last(blockingQueue.processes) = call.process

\* a process leaves the blocking queue only in the blocking step of run(),
\* under a PROCESS_READY interrupt that puts it into the queue of level 0
LeavesBlockingQueueOnlyReady ==
    \A p \in Procs :
        (InQueue(p, blockingQueue) /\ ~InQueue(p, blockingQueue')) =>
            /\ pc = "blocking"
            /\ p \in Readied(raised')
            /\ InQueue(p, runningQueues'[0])

\* LOWER_PRIORITY from the blocking queue leads back to its tail
LowerPriorityFromBlockingRouted ==
    /\ (/\ call.op = "handleInterrupt"
        /\ call.interrupt = LOWER_PRIORITY
        /\ call.queueType = BLOCKING_QUEUE) =>
          /\ blockingQueue = Enqueue(call.pre.blockingQueue, call.process)
          /\ runningQueues = call.pre.runningQueues
    /\ pc = "scan" =>
          \A k \in DOMAIN raised :
              (raised[k].interrupt = LOWER_PRIORITY
                 /\ raised[k].queueType = BLOCKING_QUEUE) =>
                  /\ QueuesOf(raised[k].process) = {-1}
                  /\ Last(blockingQueue.processes) = raised[k].process

\* C12: handleInterrupt(q, p, LOWER_PRIORITY) with q the blocking queue
\* appends p to the tail of the blocking queue and changes no CPU queue, in a
\* direct call and in the blocking step of run(); and a process in the
\* blocking queue leaves it only under a PROCESS_READY interrupt.
C12_BlockingLowerPriorityStays ==
    []LowerPriorityFromBlockingRouted /\ [][LeavesBlockingQueueOnlyReady]_vars

\* the blocking step of an iteration serviced the head of the blocking
\* queue, its blocking phase is not complete, and it is back behind the
\* process that waited with it
C12_Witness ==
    /\ pc = "scan"
    /\ Len(raised) = 1
    /\ raised[1].interrupt = LOWER_PRIORITY
    /\ raised[1].queueType = BLOCKING_QUEUE
    /\ ~BlockingCompleted(proc[raised[1].process])
    /\ Len(blockingQueue.processes) = 2
    /\ Last(blockingQueue.processes) = raised[1].process

\* the places a process occupies: pairs of a queue (a CPU level, or -1 for
\* the blocking queue) and a position in it
Places(process) ==
    {<<-1, k>> : k \in {j \in DOMAIN blockingQueue.processes :
                            blockingQueue.processes[j] = process}}
      \cup UNION {{<<i, k>> : k \in {j \in DOMAIN runningQueues[i].processes :
                                  runningQueues[i].processes[j] = process}} :
                  i \in Levels}

\* the process was in a queue when the last call was made
QueuedAtCall(process) ==
    \/ InQueue(process, call.pre.blockingQueue)
    \/ \E i \in Levels : InQueue(process, call.pre.runningQueues[i])

\* C13: from the call of run() on, at every tick boundary and inside the
\* ticks, a process that was queued when run() was called and is not fully
\* serviced is in exactly one queue exactly once; no process is in the queues
\* twice, and none is there that was not queued at the call.
C13_ProcessConservation ==
    call.op = "run" =>
        \A p \in Procs :
            /\ Cardinality(Places(p)) <= 1
            /\ Places(p) # {} => QueuedAtCall(p)
            /\ (QueuedAtCall(p) /\ ~IsFinished(proc[p])) =>
                   Cardinality(Places(p)) = 1

\* between two ticks of run(), after a tick that did work: a process waits
\* in the blocking queue and another, preempted, in a lower CPU queue
C13_Witness ==
    /\ call.op = "run"
    /\ pc = "sample"
    /\ Len(wts) >= 1
    /\ \E p, q \in Procs :
          /\ p # q
          /\ ~IsFinished(proc[p]) /\ ~IsFinished(proc[q])
          /\ QueuesOf(p) = {-1}
          /\ QueuesOf(q) \cap {0, -1} = {}
          /\ QueuesOf(q) # {}

\* the queues whose content differs from what it was when the last call was
\* made: CPU levels, and -1 for the blocking queue
ChangedQueues ==
    {i \in Levels : runningQueues[i] # call.pre.runningQueues[i]}
      \cup (IF blockingQueue # call.pre.blockingQueue THEN {-1} ELSE {})

\* C14: handleInterrupt changes at most one queue, and only by appending the
\* process it was passed at the tail; it removes no process, reorders no
\* queue, keeps the quantum, level and type of every queue and the set of
\* queues, and leaves the clock and the other processes unchanged.
C14_HandleInterruptFrame ==
    call.op = "handleInterrupt" =>
        /\ clock = call.pre.clock
        /\ DOMAIN runningQueues = DOMAIN call.pre.runningQueues
        /\ blockingQueue \in {call.pre.blockingQueue,
                              Enqueue(call.pre.blockingQueue, call.process)}
        /\ \A i \in Levels :
              runningQueues[i] \in
                  {call.pre.runningQueues[i],
                   Enqueue(call.pre.runningQueues[i], call.process)}
        /\ Cardinality(ChangedQueues) <= 1
        /\ \A p \in Procs \ {call.process} : proc[p] = call.pre.proc[p]

\* PROCESS_READY passed with the blocking queue as source while a process
\* waits at level 0: one queue changed, by an append
C14_Witness ==
    /\ call.op = "handleInterrupt"
    /\ call.interrupt = PROCESS_READY
    /\ call.queueType = BLOCKING_QUEUE
    /\ ~IsEmpty(call.pre.runningQueues[0])
    /\ ChangedQueues = {0}

\* C15: in an iteration of run() the blocking queue is serviced before the
\* CPU queues are scanned, and doBlockingWork and doCPUWork are both handed
\* the workTime of the iteration; a process that PROCESS_READY moved to
\* level 0 in the blocking step is in that queue when the scan of the same
\* iteration starts, which therefore services level 0; a process that the
\* CPU step moved to the blocking queue is still there at the end of the
\* iteration with its blocking time untouched.
C15_BlockingBeforeCpu ==
    /\ \A k \in DOMAIN blkCalls : blkCalls[k] = workTime
    /\ \A k \in DOMAIN cpuTimes : cpuTimes[k] = workTime
    /\ pc = "blocking" => (blkCalls = <<>> /\ cpuCalls = <<>>)
    /\ pc = "scan" =>
          /\ cpuCalls = <<>>
          /\ \A k \in DOMAIN raised : raised[k].queueType = BLOCKING_QUEUE
          /\ \A p \in Readied(raised) : InQueue(p, runningQueues[0])
    /\ pc = "check" =>
          /\ \A j, k \in DOMAIN raised :
                (raised[j].queueType = CPU_QUEUE
                   /\ raised[k].queueType = BLOCKING_QUEUE) => k < j
          /\ Readied(raised) # {} => (0 \in scanNonEmpty /\ cpuCalls = <<0>>)
          /\ \A k \in DOMAIN raised :
                (raised[k].interrupt = PROCESS_BLOCKED /\ call.op = "run") =>
                    /\ QueuesOf(raised[k].process) = {-1}
                    /\ proc[raised[k].process].blk =
                           call.pre.proc[raised[k].process].blk
                    /\ proc[raised[k].process].blk > 0

\* an iteration whose blocking step readied a process and whose CPU step,
\* handed the same workTime, blocked another
C15_Witness ==
    /\ pc = "check"
    /\ workTime > 0
    /\ blkCalls = <<workTime>>
    /\ cpuTimes = <<workTime>>
    /\ Len(raised) = 2
    /\ raised[1].interrupt = PROCESS_READY
    /\ raised[2].interrupt = PROCESS_BLOCKED
    /\ 0 \in scanNonEmpty

\* the blocking step and the CPU scan of an iteration whose workTime is zero
\* change no queue and no process and raise no interrupt
ZeroTickChangesNothing ==
    (workTime = 0 /\ pc \in {"blocking", "scan"}) =>
        /\ blockingQueue' = blockingQueue
        /\ runningQueues' = runningQueues
        /\ proc' = proc
        /\ raised' = <<>>
        /\ clock' = clock

\* an iteration whose workTime is zero can take each of its steps
ZeroTickProceeds ==
    workTime = 0 =>
        /\ pc = "blocking" => ENABLED RunBlocking
        /\ pc = "scan" => ENABLED RunScan
        /\ pc = "check" => (raised = <<>> /\ ENABLED RunCheck)

\* C16: an iteration of run() whose workTime is zero makes no progress and
\* raises no interrupt: its blocking step and its CPU scan leave the content
\* and order of every queue and the remaining times of every process as they
\* were, and each step of the iteration can be taken, up to the allEmpty
\* check.
C16_ZeroWorkTimeTick ==
    []ZeroTickProceeds /\ [][ZeroTickChangesNothing]_vars

\* the end of an iteration with workTime zero, after an iteration that did
\* work: doBlockingWork and doCPUWork were both called with 0 on non-empty
\* queues and nothing was raised
C16_Witness ==
    /\ pc = "check"
    /\ workTime = 0
    /\ Len(wts) >= 1
    /\ blkCalls = <<0>>
    /\ cpuTimes = <<0>>
    /\ raised = <<>>
    /\ ~IsEmpty(blockingQueue)

\* every queue was empty when the last call was made
EmptyAtCall ==
    /\ IsEmpty(call.pre.blockingQueue)
    /\ \A i \in Levels : IsEmpty(call.pre.runningQueues[i])

\* some queue holds a process
SomeQueued ==
    \/ ~IsEmpty(blockingQueue)
    \/ \E i \in Levels : ~IsEmpty(runningQueues[i])

\* C17: when run() has returned, the blocking queue and every CPU queue are
\* empty and at least one iteration was made; run() starts a further
\* iteration only when the iteration before it ended with a process in some
\* queue; run() called with all queues empty makes exactly one iteration,
\* calls neither doBlockingWork nor doCPUWork, and returns.
C17_ReturnsWhenAllEmpty ==
    call.op = "run" =>
        /\ pc = "idle" => (~SomeQueued /\ iterations >= 1)
        /\ (pc = "sample" /\ iterations >= 1) => SomeQueued
        /\ EmptyAtCall =>
              /\ iterations <= 1
              /\ blkCalls = <<>> /\ cpuCalls = <<>>
              /\ ~SomeQueued
              /\ pc # "idle" => iterations = IF pc = "sample" THEN 0 ELSE 1

\* run() returned after the iteration that serviced the last process, which
\* was not its first iteration
C17_Witness ==
    /\ call.op = "run"
    /\ pc = "idle"
    /\ ~EmptyAtCall
    /\ iterations = 2
    /\ cpuCalls # <<>>
    /\ ~SomeQueued

\* the blocking step calls doBlockingWork only when the blocking queue holds
\* a process, and the scan calls doCPUWork only on a CPU queue that holds one
WorkOnlyOnNonEmpty ==
    /\ (pc = "blocking" /\ blkCalls' # <<>>) => ~IsEmpty(blockingQueue)
    /\ pc = "scan" =>
          \A k \in DOMAIN cpuCalls' : ~IsEmpty(runningQueues[cpuCalls'[k]])

\* C18: run() calls doBlockingWork only in a state where the blocking queue
\* holds a process and doCPUWork only on a CPU queue that holds a process.
C18_NoWorkOnEmptyQueue == [][WorkOnlyOnNonEmpty]_vars

\* an iteration that found the blocking queue and the CPU queues of levels 0
\* and 1 empty, skipped them and serviced level 2
C18_Witness ==
    /\ pc = "check"
    /\ workTime > 0
    /\ blkCalls = <<>>
    /\ scanNonEmpty = {2}
    /\ cpuCalls = <<2>>

\* C19: in every state there is one blocking queue, of quantum 50 and type
\* BLOCKING_QUEUE, and exactly PRIORITY_LEVELS CPU queues, indexed
\* 0 .. PRIORITY_LEVELS - 1, the queue of index i having type CPU_QUEUE,
\* level i and quantum 10 + 20 * i; no operation changes any of this.
C19_FixedTopology ==
    /\ blockingQueue.queueType = BLOCKING_QUEUE
    /\ blockingQueue.quantum = 50
    /\ DOMAIN runningQueues = 0 .. (PRIORITY_LEVELS - 1)
    /\ Cardinality(DOMAIN runningQueues) = PRIORITY_LEVELS
    /\ \A i \in DOMAIN runningQueues :
          /\ runningQueues[i].queueType = CPU_QUEUE
          /\ runningQueues[i].priorityLevel = i
          /\ runningQueues[i].quantum = 10 + 20 * i

\* between two iterations of run(), after demotions down to the lowest
\* level and a blocking service: a process waits in the blocking queue and
\* another in the lowest CPU queue
C19_Witness ==
    /\ call.op = "run"
    /\ pc = "sample"
    /\ Len(wts) = 2
    /\ ~IsEmpty(blockingQueue)
    /\ ~IsEmpty(runningQueues[PRIORITY_LEVELS - 1])

\* the clock is the last sample, it is not before the constructor's sample,
\* and the workTimes add up to the time sampled since construction
ClockIsLastSample ==
    /\ clock = lastSample
    /\ clock >= startClock
    /\ workTime >= 0
    /\ workTotal = lastSample - startClock

\* the clock never goes back and changes only where run() samples it, to
\* the new sample; the workTime computed there is the new sample minus the
\* previous one
ClockStep ==
    /\ clock' >= clock
    /\ clock' # clock => pc = "sample"
    /\ (pc = "sample" /\ pc' = "blocking") =>
          /\ lastSample' >= lastSample
          /\ clock' = lastSample'
          /\ workTime' = lastSample' - lastSample
          /\ workTotal' = workTotal + workTime'

\* C20: with clock samples that never decrease, the clock never decreases
\* and is always the most recent sample; the workTime of an iteration is not
\* negative and is the sample of the iteration minus the previous sample
\* (the constructor's for the first iteration); the workTimes of all
\* iterations so far add up to the last sample minus the constructor's.
C20_ClockAndWorkTime ==
    []ClockIsLastSample /\ [][ClockStep]_vars

\* after iterations with workTimes 10 and 30 the clock is 40 past the
\* constructor's sample
C20_Witness ==
    /\ pc = "blocking"
    /\ wts = <<10, 30>>
    /\ iterations = 2
    /\ workTime = 30
    /\ workTotal = 40
    /\ clock = startClock + 40
    /\ startClock > 0

====
